---------------------------- MODULE Spec2Model ----------------------------
(***************************************************************************)
(* Model of src/src/main.rs: the world-state tracker (GameState), the      *)
(* radar assignment (GameState::assign_radar), the target selection        *)
(* (GameState::choose_order) and the per-miner order loop of main.         *)
(*                                                                         *)
(* Option<T> is modelled as a sequence of length 0 or 1: None is << >> and *)
(* Some(v) is <<v>>.  Vec indices keep the source's 0-based values, so     *)
(* miner i of the source is miners[i + 1] here.  The informational fields  *)
(* my_score, opponent_score, radar_cooldown and trap_cooldown are written  *)
(* once per turn and never read; they are left out.                        *)
(***************************************************************************)
EXTENDS Integers, Sequences, FiniteSets, TLC

VARIABLES game_state, pc, seen, input_size, miner_index, submitted, turn, assigned, chosen,
          dispatched, snapshot

vars == <<game_state, pc, seen, input_size, miner_index, submitted, turn, assigned, chosen,
          dispatched, snapshot>>

---------------------------------------------------------------------------
(* Bounds of the model and the board read at start-up. *)

Width == 3
Height == 2
MaxTurns == 3
MaxUid == 2
MaxOre == 1
MaxSize == 5

\* the smaller board and the longer input of the specification SpecEngine
EngineWidth == 2
EngineHeight == 2
EngineSize == 7

\* the input of the specification SpecSnapshot
SnapshotSize == 5

---------------------------------------------------------------------------
(* Option, absolute value, distance. *)

None == << >>
Some(v) == <<v>>

Abs(n) == IF n < 0 THEN -n ELSE n

manh_dist(a, b) == Abs(a[1] - b[1]) + Abs(a[2] - b[2])

---------------------------------------------------------------------------
(* Decoding of the type and item codes. *)

EntityType_try_from(value) ==
  CASE value = 0 -> [ok |-> TRUE, val |-> "Miner"]
    [] value = 1 -> [ok |-> TRUE, val |-> "OpponentMiner"]
    [] value = 2 -> [ok |-> TRUE, val |-> "BurriedRadar"]
    [] value = 3 -> [ok |-> TRUE, val |-> "BurriedTrap"]
    [] OTHER -> [ok |-> FALSE, val |-> "unknown entity type"]

\* Item::try_from(value).ok()
Item_try_from_ok(value) ==
  CASE value = 2 -> Some("Radar")
    [] value = 3 -> Some("Trap")
    [] value = 4 -> Some("Ore")
    [] OTHER -> None

---------------------------------------------------------------------------
(* Orders and requests. *)

GoTo(x, y) == [kind |-> "GoTo", x |-> x, y |-> y]
DigAt(x, y) == [kind |-> "DigAt", x |-> x, y |-> y]
DeployRadarAt(x, y) == [kind |-> "DeployRadarAt", x |-> x, y |-> y]
Deliver(x, y) == [kind |-> "Deliver", x |-> x, y |-> y]

\* faulty variant of go_to_random: the column is drawn from 0
go_to_random_any_column(width, height) ==
  {GoTo(x, y) : x \in 0 .. (width - 1), y \in 0 .. (height - 1)}

\* rng.gen_range(low, high) draws from low .. high - 1
go_to_random(width, height) ==
  {GoTo(x, y) : x \in 1 .. (width - 1), y \in 0 .. (height - 1)}

deploy_radar_to_random(width, height) ==
  {DeployRadarAt(x, y) : x \in 1 .. (width - 1), y \in 0 .. (height - 1)}

destination(order) == <<order.x, order.y>>

\* faulty variant of is_digging_order: every order counts as a digging order
is_digging_order_any(order) == order.kind \in {"DigAt", "GoTo"}

is_digging_order(order) == order.kind = "DigAt"

Move(x, y) == [kind |-> "Move", x |-> x, y |-> y]
Dig(x, y) == [kind |-> "Dig", x |-> x, y |-> y]
Wait == [kind |-> "Wait", x |-> 0, y |-> 0]
RequestRadar == [kind |-> "Item", x |-> 0, y |-> 0]

back_to_hq(position) == Move(0, position[2])

---------------------------------------------------------------------------
(* GameState and its methods. *)

DefaultCell == [ore_amount |-> None, has_hole |-> FALSE]

GameState_new(width, height) ==
  [width |-> width,
   height |-> height,
   cells |-> [k \in 0 .. (width * height - 1) |-> DefaultCell],
   miners |-> << >>,
   opponent_miners |-> << >>,
   entities |-> << >>,
   burried_radars |-> << >>,
   burried_traps |-> << >>,
   miner_with_radar |-> None]

set_ore(gs, x, y, ore_amount) ==
  [gs EXCEPT !.cells[y * gs.width + x].ore_amount = ore_amount]

set_hole(gs, x, y, hole) ==
  [gs EXCEPT !.cells[y * gs.width + x].has_hole = hole]

add_entity(gs, uid, entity) ==
  [gs EXCEPT !.entities = (uid :> entity) @@ gs.entities]

entity_exists(gs, uid) == uid \in DOMAIN gs.entities

\* the index add_miner returns is Len(gs.miners) before the push
add_miner(gs, miner) == [gs EXCEPT !.miners = Append(gs.miners, miner)]

add_opponent_miner(gs, miner) ==
  [gs EXCEPT !.opponent_miners = Append(gs.opponent_miners, miner)]

\* self.entities.get(&uid)
entity_get(gs, uid) ==
  IF uid \in DOMAIN gs.entities THEN Some(gs.entities[uid]) ELSE None

update_position(gs, uid, px, py) ==
  LET e == entity_get(gs, uid) IN
  IF e # None /\ e[1].kind = "Miner"
  THEN [gs EXCEPT !.miners[e[1].index + 1].x = px,
                  !.miners[e[1].index + 1].y = py]
  ELSE IF e # None /\ e[1].kind = "OpponentMiner"
  THEN [gs EXCEPT !.opponent_miners[e[1].index + 1].x = px,
                  !.opponent_miners[e[1].index + 1].y = py]
  ELSE gs

update_item(gs, uid, item) ==
  LET e == entity_get(gs, uid) IN
  IF e # None /\ e[1].kind = "Miner"
  THEN [gs EXCEPT !.miners[e[1].index + 1].item = item]
  ELSE IF e # None /\ e[1].kind = "OpponentMiner"
  THEN [gs EXCEPT !.opponent_miners[e[1].index + 1].item = item]
  ELSE gs

\* faulty variant of kill: the miners of the opponent are left alone
kill_owned_only(gs, uid) ==
  LET e == entity_get(gs, uid) IN
  IF e # None /\ e[1].kind = "Miner"
  THEN [gs EXCEPT !.miners[e[1].index + 1].alive = FALSE]
  ELSE gs

\* faulty variant of kill: the radar mission of a destroyed miner is released
kill_releases_mission(gs, uid) ==
  LET e == entity_get(gs, uid) IN
  IF e # None /\ e[1].kind = "Miner"
  THEN [gs EXCEPT !.miners[e[1].index + 1].alive = FALSE,
                  !.miner_with_radar = IF @ = Some(e[1].index) THEN None ELSE @]
  ELSE IF e # None /\ e[1].kind = "OpponentMiner"
  THEN [gs EXCEPT !.opponent_miners[e[1].index + 1].alive = FALSE]
  ELSE gs

kill(gs, uid) ==
  LET e == entity_get(gs, uid) IN
  IF e # None /\ e[1].kind = "Miner"
  THEN [gs EXCEPT !.miners[e[1].index + 1].alive = FALSE]
  ELSE IF e # None /\ e[1].kind = "OpponentMiner"
  THEN [gs EXCEPT !.opponent_miners[e[1].index + 1].alive = FALSE]
  ELSE gs

burry_radar(gs, uid, x, y) ==
  [gs EXCEPT !.burried_radars = (uid :> <<x, y>>) @@ gs.burried_radars]

burry_trap(gs, uid, x, y) ==
  [gs EXCEPT !.burried_traps = (uid :> <<x, y>>) @@ gs.burried_traps]

\* faulty variant of update_radar_position: an unknown radar is inserted
update_radar_position_inserts(gs, uid, x, y) ==
  [gs EXCEPT !.burried_radars = (uid :> <<x, y>>) @@ gs.burried_radars]

update_radar_position(gs, uid, x, y) ==
  IF uid \in DOMAIN gs.burried_radars
  THEN [gs EXCEPT !.burried_radars[uid] = <<x, y>>]
  ELSE gs

update_trap_position(gs, uid, x, y) ==
  IF uid \in DOMAIN gs.burried_traps
  THEN [gs EXCEPT !.burried_traps[uid] = <<x, y>>]
  ELSE gs

\* self.cells.get(y * width + x)
cell(gs, x, y) ==
  IF (y * gs.width + x) \in DOMAIN gs.cells
  THEN Some(gs.cells[y * gs.width + x])
  ELSE None


\* one step of the loop of assign_radar: found is None or Some(<<index, dist>>)
assign_radar_keep(found, miner_index0, dist) ==
  IF found # None
  THEN IF dist < found[1][2] THEN Some(<<miner_index0, dist>>) ELSE found
  ELSE Some(<<miner_index0, dist>>)

RECURSIVE assign_radar_scan(_, _, _, _)
assign_radar_scan(gs, middle, k, found) ==
  IF k >= Len(gs.miners)
  THEN found
  ELSE assign_radar_scan(gs, middle, k + 1,
         assign_radar_keep(found, k, Abs(gs.miners[k + 1].y - middle)))

\* found after the loop of assign_radar
assign_radar_found(gs) == assign_radar_scan(gs, gs.height \div 2, 0, None)

\* faulty variant of assign_radar_set: the holder is not recorded
assign_radar_set_unrecorded(gs, index, order) ==
  [gs EXCEPT !.miners[index + 1].order = order]

\* the index is recorded and the order drawn is given to that miner
assign_radar_set(gs, index, order) ==
  [gs EXCEPT !.miner_with_radar = Some(index),
             !.miners[index + 1].order = order]

\* the outcomes of assign_radar: found.unwrap() panics on an empty miner list
assign_radar(gs) ==
  LET found == assign_radar_found(gs) IN
  IF found = None
  THEN {[panic |-> TRUE, gs |-> gs]}
  ELSE {[panic |-> FALSE, gs |-> assign_radar_set(gs, found[1][1], order)] :
          order \in deploy_radar_to_random(gs.width, gs.height)}

\* faulty variant of choose_order_keep: the comparison is reversed
choose_order_keep_farthest(closest_cell, x, y, ore_amount, miner) ==
  IF closest_cell # None
  THEN IF manh_dist(<<x, y>>, <<miner.x, miner.y>>)
            > manh_dist(<<closest_cell[1][1], closest_cell[1][2]>>, <<miner.x, miner.y>>)
       THEN Some(<<x, y, ore_amount>>)
       ELSE closest_cell
  ELSE Some(<<x, y, ore_amount>>)

\* one step of the scan of choose_order: closest_cell is None or Some(<<x, y, ore>>)
choose_order_keep(closest_cell, x, y, ore_amount, miner) ==
  IF closest_cell # None
  THEN IF manh_dist(<<x, y>>, <<miner.x, miner.y>>)
            < manh_dist(<<closest_cell[1][1], closest_cell[1][2]>>, <<miner.x, miner.y>>)
       THEN Some(<<x, y, ore_amount>>)
       ELSE closest_cell
  ELSE Some(<<x, y, ore_amount>>)

\* faulty variant of choose_order_visit: the loops are swapped, y outer, x inner
choose_order_visit_rows(gs, k) == <<k % gs.width, k \div gs.width>>

\* the k-th cell the nested loops of choose_order visit: x outer, y inner
choose_order_visit(gs, k) == <<k \div gs.height, k % gs.height>>

RECURSIVE choose_order_scan(_, _, _, _)
choose_order_scan(gs, miner, k, closest_cell) ==
  IF k >= gs.width * gs.height
  THEN closest_cell
  ELSE LET x == choose_order_visit(gs, k)[1]
           y == choose_order_visit(gs, k)[2]
           c == cell(gs, x, y)[1]
       IN choose_order_scan(gs, miner, k + 1,
            IF c.ore_amount # None /\ c.ore_amount[1] > 0
            THEN choose_order_keep(closest_cell, x, y, c.ore_amount[1], miner)
            ELSE closest_cell)

\* the orders choose_order can return (one DigAt, or any random GoTo)
choose_order(gs, miner_index0) ==
  LET closest_cell == choose_order_scan(gs, gs.miners[miner_index0 + 1], 0, None) IN
  IF closest_cell # None
  THEN {DigAt(closest_cell[1][1], closest_cell[1][2])}
  ELSE go_to_random(gs.width, gs.height)

---------------------------------------------------------------------------
(* The snapshot: grid rows and entity lines. *)

\* the (x, y) the k-th pass of the grid loops writes: y outer, x from 1
read_grid_visit(gs, k) == <<1 + (k % (gs.width - 1)), k \div (gs.width - 1)>>

\* the loops over the grid rows; column 0 (the HQ) is skipped
RECURSIVE read_grid(_, _, _)
read_grid(gs, rows, k) ==
  IF k >= (gs.width - 1) * gs.height
  THEN gs
  ELSE LET x == read_grid_visit(gs, k)[1]
           y == read_grid_visit(gs, k)[2]
       IN read_grid(set_hole(set_ore(gs, x, y, rows[<<x, y>>].ore_amount),
                             x, y, rows[<<x, y>>].has_hole),
                    rows, k + 1)

\* faulty variant of new_Miner: the position of the first line is dropped
new_Miner_unplaced(x, y, item, uid, order) ==
  [x |-> 0, y |-> 0, item |-> item, uid |-> uid, alive |-> TRUE, order |-> order]

\* a new miner; order is the result of Order::go_to_random
new_Miner(x, y, item, uid, order) ==
  [x |-> x, y |-> y, item |-> item, uid |-> uid, alive |-> TRUE, order |-> order]

\* an entity line whose uid is not registered yet
new_entity(gs, uid, entity_type, x, y, item, order) ==
  CASE entity_type = "Miner" ->
         add_entity(add_miner(gs, new_Miner(x, y, item, uid, order)),
                    uid, [kind |-> "Miner", index |-> Len(gs.miners)])
    [] entity_type = "OpponentMiner" ->
         add_entity(add_opponent_miner(gs, new_Miner(x, y, item, uid, order)),
                    uid, [kind |-> "OpponentMiner", index |-> Len(gs.opponent_miners)])
    [] entity_type = "BurriedRadar" ->
         burry_radar(add_entity(gs, uid, [kind |-> "BurriedRadar", index |-> 0]), uid, x, y)
    [] entity_type = "BurriedTrap" ->
         burry_trap(add_entity(gs, uid, [kind |-> "BurriedTrap", index |-> 0]), uid, x, y)

\* an entity line whose uid is registered
known_entity(gs, uid, entity_type, x, y, item) ==
  CASE entity_type \in {"Miner", "OpponentMiner"} ->
         update_item(
           update_position(
             IF x = -1 /\ y = -1 THEN kill(gs, uid) ELSE gs,
             uid, x, y),
           uid, item)
    [] entity_type = "BurriedRadar" -> update_radar_position(gs, uid, x, y)
    [] entity_type = "BurriedTrap" -> update_trap_position(gs, uid, x, y)

\* one pass of the entity loop; order is the random order drawn for a new miner
read_entity(gs, uid, type_code, x, y, item_code, order) ==
  LET entity_type == EntityType_try_from(type_code)
      item == Item_try_from_ok(item_code)
  IN IF ~entity_type.ok
     THEN [panic |-> TRUE, gs |-> gs]
     ELSE IF ~entity_exists(gs, uid)
     THEN [panic |-> FALSE, gs |-> new_entity(gs, uid, entity_type.val, x, y, item, order)]
     ELSE [panic |-> FALSE, gs |-> known_entity(gs, uid, entity_type.val, x, y, item)]

---------------------------------------------------------------------------
(* The body of the per-miner loop.  Each operator gives the set of outcomes *)
(* of one pass: the game state after it, the requests it submitted, the     *)
(* order choose_order returned when it was called, and whether it panicked. *)

Outcome(gs, out, chose) == [gs |-> gs, out |-> out, chose |-> chose, panic |-> FALSE]

\* unreachable!() and Option::unwrap on None
Panicked(gs) == [gs |-> gs, out |-> << >>, chose |-> None, panic |-> TRUE]

set_order(gs, miner_index0, order) ==
  [gs EXCEPT !.miners[miner_index0 + 1].order = order]

\* faulty variant of release_radar: the record of the holder is kept
release_radar_keeps_holder(gs, miner_index0, order) ==
  [gs EXCEPT !.miners[miner_index0 + 1].order = order]

\* faulty variant of release_radar: the miner keeps its radar order
release_radar_keeps_order(gs, miner_index0, order) ==
  [gs EXCEPT !.miner_with_radar = None]

\* the radar has been burried: the mission is released
release_radar(gs, miner_index0, order) ==
  [gs EXCEPT !.miner_with_radar = None,
             !.miners[miner_index0 + 1].order = order]

\* faulty variant of radar_miner_step: the radar is not asked for at the HQ
radar_miner_step_silent(gs, miner_index0) ==
  LET miner == gs.miners[miner_index0 + 1]
      x == miner.order.x
      y == miner.order.y
  IN IF miner.order.kind = "DeployRadarAt"
     THEN IF miner.item = Some("Radar")
          THEN IF manh_dist(<<x, y>>, <<miner.x, miner.y>>) = 0
               THEN {Outcome(release_radar(gs, miner_index0, order), <<Dig(x, y)>>, Some(order)) :
                       order \in choose_order([gs EXCEPT !.miner_with_radar = None], miner_index0)}
               ELSE {Outcome(gs, <<Move(x, y)>>, None)}
          ELSE IF miner.x # 0
          THEN {Outcome(gs, <<back_to_hq(<<miner.x, miner.y>>)>>, None)}
          ELSE {Outcome(gs, << >>, None)}
     ELSE {Panicked(gs)}

\* faulty variant of radar_miner_step: the radar is burried, the mission is kept
radar_miner_step_keeps_mission(gs, miner_index0) ==
  LET miner == gs.miners[miner_index0 + 1]
      x == miner.order.x
      y == miner.order.y
  IN IF miner.order.kind = "DeployRadarAt"
     THEN IF miner.item = Some("Radar")
          THEN IF manh_dist(<<x, y>>, <<miner.x, miner.y>>) = 0
               THEN {Outcome(gs, <<Dig(x, y)>>, None)}
               ELSE {Outcome(gs, <<Move(x, y)>>, None)}
          ELSE IF miner.x # 0
          THEN {Outcome(gs, <<back_to_hq(<<miner.x, miner.y>>)>>, None)}
          ELSE {Outcome(gs, <<RequestRadar>>, None)}
     ELSE {Panicked(gs)}

\* the miner that carries the radar mission
radar_miner_step(gs, miner_index0) ==
  LET miner == gs.miners[miner_index0 + 1]
      x == miner.order.x
      y == miner.order.y
  IN IF miner.order.kind = "DeployRadarAt"
     THEN IF miner.item = Some("Radar")
          THEN IF manh_dist(<<x, y>>, <<miner.x, miner.y>>) = 0
               THEN {Outcome(release_radar(gs, miner_index0, order), <<Dig(x, y)>>, Some(order)) :
                       order \in choose_order([gs EXCEPT !.miner_with_radar = None], miner_index0)}
               ELSE {Outcome(gs, <<Move(x, y)>>, None)}
          ELSE IF miner.x # 0
          THEN {Outcome(gs, <<back_to_hq(<<miner.x, miner.y>>)>>, None)}
          ELSE {Outcome(gs, <<RequestRadar>>, None)}
     ELSE {Panicked(gs)}

\* faulty variant of travel_miner_step: the probing dig tests the hole flag reversed
travel_miner_step_probe_holes(gs, miner_index0) ==
  LET miner == gs.miners[miner_index0 + 1]
      x == miner.order.x
      y == miner.order.y
      c == cell(gs, x, y)
  IN IF manh_dist(<<x, y>>, <<miner.x, miner.y>>) = 0
     THEN IF c = None
          THEN {Panicked(gs)}
          ELSE IF miner.item = Some("Ore")
          THEN {Outcome(set_order(gs, miner_index0, Deliver(x, y)),
                        <<back_to_hq(<<x, y>>)>>, None)}
          ELSE IF c[1].ore_amount = None /\ c[1].has_hole
          THEN {Outcome(gs, <<Dig(x, y)>>, None)}
          ELSE IF (IF c[1].ore_amount = None THEN 0 ELSE c[1].ore_amount[1]) > 0
          THEN {Outcome(set_order(gs, miner_index0, Deliver(x, y)), <<Dig(x, y)>>, None)}
          ELSE {Outcome(set_order(gs, miner_index0, order),
                        <<Move(destination(order)[1], destination(order)[2])>>,
                        Some(order)) :
                  order \in choose_order(gs, miner_index0)}
     ELSE {IF is_digging_order(other_order)
           THEN Outcome(set_order(gs, miner_index0, other_order),
                        <<Move(destination(other_order)[1], destination(other_order)[2])>>,
                        Some(other_order))
           ELSE Outcome(gs, <<Move(x, y)>>, Some(other_order)) :
             other_order \in choose_order(gs, miner_index0)}

\* a miner whose order is GoTo(x, y) or DigAt(x, y)
travel_miner_step(gs, miner_index0) ==
  LET miner == gs.miners[miner_index0 + 1]
      x == miner.order.x
      y == miner.order.y
      c == cell(gs, x, y)
  IN IF manh_dist(<<x, y>>, <<miner.x, miner.y>>) = 0
     THEN IF c = None
          THEN {Panicked(gs)}
          ELSE IF miner.item = Some("Ore")
          THEN {Outcome(set_order(gs, miner_index0, Deliver(x, y)),
                        <<back_to_hq(<<x, y>>)>>, None)}
          ELSE IF c[1].ore_amount = None /\ ~c[1].has_hole
          THEN {Outcome(gs, <<Dig(x, y)>>, None)}
          ELSE IF (IF c[1].ore_amount = None THEN 0 ELSE c[1].ore_amount[1]) > 0
          THEN {Outcome(set_order(gs, miner_index0, Deliver(x, y)), <<Dig(x, y)>>, None)}
          ELSE {Outcome(set_order(gs, miner_index0, order),
                        <<Move(destination(order)[1], destination(order)[2])>>,
                        Some(order)) :
                  order \in choose_order(gs, miner_index0)}
     ELSE {IF is_digging_order(other_order)
           THEN Outcome(set_order(gs, miner_index0, other_order),
                        <<Move(destination(other_order)[1], destination(other_order)[2])>>,
                        Some(other_order))
           ELSE Outcome(gs, <<Move(x, y)>>, Some(other_order)) :
             other_order \in choose_order(gs, miner_index0)}

\* faulty variant of deliver_miner_step: at home the move goes to the stored cell
deliver_miner_step_stored_cell(gs, miner_index0) ==
  LET miner == gs.miners[miner_index0 + 1]
      x == miner.order.x
      y == miner.order.y
  IN IF miner.x # 0
     THEN {Outcome(gs, <<back_to_hq(<<x, y>>)>>, None)}
     ELSE {Outcome(set_order(gs, miner_index0, order),
                   <<Move(x, y)>>,
                   Some(order)) :
             order \in choose_order(gs, miner_index0)}

\* a miner whose order is Deliver(x, y)
deliver_miner_step(gs, miner_index0) ==
  LET miner == gs.miners[miner_index0 + 1]
      x == miner.order.x
      y == miner.order.y
  IN IF miner.x # 0
     THEN {Outcome(gs, <<back_to_hq(<<x, y>>)>>, None)}
     ELSE {Outcome(set_order(gs, miner_index0, order),
                   <<Move(destination(order)[1], destination(order)[2])>>,
                   Some(order)) :
             order \in choose_order(gs, miner_index0)}

\* one pass of the loop over the miners
miner_step(gs, miner_index0) ==
  IF Some(miner_index0) = gs.miner_with_radar
  THEN radar_miner_step(gs, miner_index0)
  ELSE IF gs.miners[miner_index0 + 1].order.kind \in {"GoTo", "DigAt"}
  THEN travel_miner_step(gs, miner_index0)
  ELSE IF gs.miners[miner_index0 + 1].order.kind = "Deliver"
  THEN deliver_miner_step(gs, miner_index0)
  ELSE {Panicked(gs)}

\* Request::submit for the requests of one pass, in order
RECURSIVE submit(_, _, _)
submit(printed, miner_index0, out) ==
  IF out = << >>
  THEN printed
  ELSE submit(Append(printed, [miner |-> miner_index0, req |-> Head(out)]),
              miner_index0, Tail(out))

---------------------------------------------------------------------------
(* Inputs. *)

UidInputs == 1 .. MaxUid

Board == {<<x, y>> : x \in 0 .. (Width - 1), y \in 0 .. (Height - 1)}

\* the column of the HQ, where every miner starts
HomeColumn == {<<0, y>> : y \in 0 .. (Height - 1)}

\* the position reported for a destroyed miner
Sentinel == <<-1, -1>>

\* the cells the grid rows describe and items can be burried in
InputCells == {<<x, y>> : x \in 1 .. (Width - 1), y \in 0 .. (Height - 1)}

Line(type_code, pos, item_code) ==
  [type_code |-> type_code, pos |-> pos, item_code |-> item_code]

\* the first line about an entity: miners start in the HQ column with no item
NewLineInputs ==
  {Line(t, pos, -1) : t \in {0, 1}, pos \in HomeColumn}
    \cup {Line(t, pos, -1) : t \in {2, 3}, pos \in InputCells}

\* a later line: an owned miner anywhere with none, a radar or ore; a destroyed
\* miner at the sentinel with no item; the item of an opponent is not shown
KnownLineInputs ==
  {Line(0, pos, item_code) : pos \in Board, item_code \in {-1, 2, 4}}
    \cup {Line(t, Sentinel, -1) : t \in {0, 1}}
    \cup {Line(1, pos, -1) : pos \in Board}
    \cup {Line(t, pos, -1) : t \in {2, 3}, pos \in InputCells}

\* a line whose type code is none of 0 .. 3
BadLineInputs == {Line(4, pos, -1) : pos \in Board}

\* What the rows say of a cell.  The hole flag is read only for a cell of
\* unknown ore (the test before a probing dig), so a cell of known ore comes
\* with one flag value: a cell of no ore has been dug, a cell of ore has not.
CellInputs ==
  {[ore_amount |-> None, has_hole |-> hole] : hole \in BOOLEAN}
    \cup {[ore_amount |-> Some(0), has_hole |-> TRUE]}
    \cup {[ore_amount |-> Some(n), has_hole |-> FALSE] : n \in 1 .. MaxOre}

\* the cells of the grid rows that differ from an untouched cell
Revealed(rows) == Cardinality({c \in DOMAIN rows : rows[c] # DefaultCell})

\* MaxSize bounds the input of a run: the entities the lines introduce, the
\* entity lines, and the cells the grid rows of each turn reveal
GridsBySize ==
  [budget \in 0 .. MaxSize |->
     {rows \in [InputCells -> CellInputs] : Revealed(rows) <= budget}]

\* what an entity line adds to the input: the line, and the entity if it is new
LineSize(gs, uid) == IF entity_exists(gs, uid) THEN 1 ELSE 2

\* the input of a turn as it was read: the grid rows, then the entity lines
\* in order, each with the random order drawn in case the line adds a miner
NoSnapshot == [rows |-> None, lines |-> << >>]

Observation(uid, line, order) == [uid |-> uid, line |-> line, order |-> order]

---------------------------------------------------------------------------
(* The state machine: main. *)

Init ==
  /\ game_state = GameState_new(Width, Height)
  /\ pc = "orders"
  /\ seen = {}
  /\ input_size = 0
  /\ miner_index = 0
  /\ submitted = << >>
  /\ turn = 0
  /\ assigned = FALSE
  /\ chosen = None
  /\ dispatched = None
  /\ snapshot = NoSnapshot

\* the top of the game loop: the loop over the miners has ended
AtLoopTop == pc = "orders" /\ miner_index = Len(game_state.miners)

\* the game loop goes round once more
TurnStarts == AtLoopTop /\ turn < MaxTurns

\* a turn starts: the grid rows are read; a recorded turn keeps the rows
ReadGridRows(rows, recorded) ==
  /\ game_state' = read_grid(game_state, rows, 0)
  /\ input_size' = input_size + Revealed(rows)
  /\ snapshot' = IF recorded THEN [rows |-> Some(rows), lines |-> << >>] ELSE snapshot
  /\ pc' = "entities"
  /\ seen' = {}
  /\ miner_index' = 0
  /\ submitted' = << >>
  /\ turn' = turn + 1
  /\ assigned' = FALSE
  /\ chosen' = None
  /\ dispatched' = None

StartTurn ==
  /\ TurnStarts
  /\ \E rows \in GridsBySize[MaxSize - input_size] : ReadGridRows(rows, FALSE)

\* one entity line is read; the game lists an entity once per turn; a
\* recorded turn keeps the line
ReadEntityLine(uid, line, order, max_size, recorded) ==
  LET r == read_entity(game_state, uid, line.type_code, line.pos[1], line.pos[2],
                       line.item_code, order)
  IN /\ pc = "entities"
     /\ uid \notin seen
     /\ input_size + LineSize(game_state, uid) <= max_size
     /\ game_state' = r.gs
     /\ pc' = IF r.panic THEN "panic_entity_type" ELSE pc
     /\ seen' = seen \cup {uid}
     /\ input_size' = input_size + LineSize(game_state, uid)
     /\ snapshot' = IF recorded
                    THEN [snapshot EXCEPT !.lines = Append(@, Observation(uid, line, order))]
                    ELSE snapshot
     /\ UNCHANGED <<miner_index, submitted, turn, assigned, chosen, dispatched>>

\* the first line about an entity
ReadNewEntity ==
  \E uid \in UidInputs, line \in NewLineInputs, order \in go_to_random(Width, Height) :
    /\ ~entity_exists(game_state, uid)
    /\ ReadEntityLine(uid, line, order, MaxSize, FALSE)

\* a later line about an entity
ReadKnownEntity ==
  \E uid \in UidInputs, line \in KnownLineInputs :
    /\ entity_exists(game_state, uid)
    /\ ReadEntityLine(uid, line, GoTo(1, 0), MaxSize, FALSE)

\* a line whose type code is none of 0 .. 3
ReadBadEntity ==
  \E uid \in UidInputs, line \in BadLineInputs :
    ReadEntityLine(uid, line, GoTo(1, 0), MaxSize, FALSE)

\* the entity lines are over and no miner has the radar mission
AssignRadar ==
  /\ pc = "entities"
  /\ game_state.miner_with_radar = None
  /\ \E r \in assign_radar(game_state) :
       /\ game_state' = r.gs
       /\ pc' = IF r.panic THEN "panic_assign_radar" ELSE "orders"
       /\ assigned' = ~r.panic
  /\ miner_index' = 0
  /\ snapshot' = NoSnapshot
  /\ UNCHANGED <<seen, input_size, submitted, turn, chosen, dispatched>>

\* the entity lines are over and a miner has the radar mission
KeepRadar ==
  /\ pc = "entities"
  /\ game_state.miner_with_radar # None
  /\ pc' = "orders"
  /\ miner_index' = 0
  /\ snapshot' = NoSnapshot
  /\ UNCHANGED <<game_state, seen, input_size, submitted, turn, assigned, chosen,
                  dispatched>>

\* one pass of the loop over the miners
MinerStep ==
  /\ pc = "orders"
  /\ miner_index < Len(game_state.miners)
  /\ \E r \in miner_step(game_state, miner_index) :
       /\ game_state' = r.gs
       /\ submitted' = submit(submitted, miner_index, r.out)
       /\ chosen' = IF r.chose = None
                    THEN None
                    ELSE Some([miner |-> miner_index, order |-> r.chose[1]])
       /\ pc' = IF r.panic THEN "panic_orders" ELSE pc
       /\ miner_index' = IF r.panic THEN miner_index ELSE miner_index + 1
  /\ dispatched' = Some(game_state.miners[miner_index + 1].order)
  /\ assigned' = FALSE
  /\ UNCHANGED <<seen, input_size, turn, snapshot>>

Next ==
  \/ StartTurn
  \/ ReadNewEntity
  \/ ReadKnownEntity
  \/ ReadBadEntity
  \/ AssignRadar
  \/ KeepRadar
  \/ MinerStep

Spec == Init /\ [][Next]_vars

---------------------------------------------------------------------------
(* SpecEngine: the same program on a smaller board with a longer input.    *)
(* The entity lines are those of owned miners: the loop over the miners    *)
(* reads the miner list, the cells and the holder of the radar mission,    *)
(* and a line of another kind writes none of them (a line of type 1 about  *)
(* an owned miner writes what the line of type 0 writes).                  *)

EngineBoard == {<<x, y>> : x \in 0 .. (EngineWidth - 1), y \in 0 .. (EngineHeight - 1)}

EngineHomeColumn == {<<0, y>> : y \in 0 .. (EngineHeight - 1)}

EngineInputCells == {<<x, y>> : x \in 1 .. (EngineWidth - 1), y \in 0 .. (EngineHeight - 1)}

EngineNewLineInputs == {Line(0, pos, -1) : pos \in EngineHomeColumn}

EngineKnownLineInputs ==
  {Line(0, pos, item_code) : pos \in EngineBoard, item_code \in {-1, 2, 4}}
    \cup {Line(0, Sentinel, -1)}

EngineGridsBySize ==
  [budget \in 0 .. EngineSize |->
     {rows \in [EngineInputCells -> CellInputs] : Revealed(rows) <= budget}]

EngineInit ==
  /\ game_state = GameState_new(EngineWidth, EngineHeight)
  /\ pc = "orders"
  /\ seen = {}
  /\ input_size = 0
  /\ miner_index = 0
  /\ submitted = << >>
  /\ turn = 0
  /\ assigned = FALSE
  /\ chosen = None
  /\ dispatched = None
  /\ snapshot = NoSnapshot

EngineStartTurn ==
  /\ TurnStarts
  /\ \E rows \in EngineGridsBySize[EngineSize - input_size] : ReadGridRows(rows, FALSE)

EngineReadNewMiner ==
  \E uid \in UidInputs, line \in EngineNewLineInputs,
     order \in go_to_random(EngineWidth, EngineHeight) :
    /\ ~entity_exists(game_state, uid)
    /\ ReadEntityLine(uid, line, order, EngineSize, FALSE)

EngineReadKnownMiner ==
  \E uid \in UidInputs, line \in EngineKnownLineInputs :
    /\ entity_exists(game_state, uid)
    /\ ReadEntityLine(uid, line, GoTo(1, 0), EngineSize, FALSE)

EngineNext ==
  \/ EngineStartTurn
  \/ EngineReadNewMiner
  \/ EngineReadKnownMiner
  \/ AssignRadar
  \/ KeepRadar
  \/ MinerStep

SpecEngine == EngineInit /\ [][EngineNext]_vars

---------------------------------------------------------------------------
(* SpecSnapshot: the same program with the input of each turn recorded     *)
(* while it is read, and two steps that feed recorded input once more      *)
(* before the program goes on: the whole snapshot, or its last line.  They *)
(* apply what the reading steps apply, and end the run.                    *)

\* the entity loop over the lines of a snapshot, from line k on
RECURSIVE read_entities(_, _, _)
read_entities(gs, lines, k) ==
  IF k > Len(lines)
  THEN gs
  ELSE read_entities(
         read_entity(gs, lines[k].uid, lines[k].line.type_code, lines[k].line.pos[1],
                     lines[k].line.pos[2], lines[k].line.item_code, lines[k].order).gs,
         lines, k + 1)

\* the grid rows, then the entity lines
read_snapshot(gs, snap) == read_entities(read_grid(gs, snap.rows[1], 0), snap.lines, 1)

\* a line that reports a destroyed robot
IsDeathLine(line) == line.pos = Sentinel /\ line.type_code \in {0, 1}

SnapshotStartTurn ==
  /\ TurnStarts
  /\ \E rows \in GridsBySize[SnapshotSize - input_size] : ReadGridRows(rows, TRUE)

SnapshotReadNewEntity ==
  \E uid \in UidInputs, line \in NewLineInputs, order \in go_to_random(Width, Height) :
    /\ ~entity_exists(game_state, uid)
    /\ ReadEntityLine(uid, line, order, SnapshotSize, TRUE)

SnapshotReadKnownEntity ==
  \E uid \in UidInputs, line \in KnownLineInputs :
    /\ entity_exists(game_state, uid)
    /\ ReadEntityLine(uid, line, GoTo(1, 0), SnapshotSize, TRUE)

\* the snapshot read so far, with no line of a destroyed robot, is read again
ReplaySnapshot ==
  /\ pc = "entities"
  /\ \A k \in 1 .. Len(snapshot.lines) : ~IsDeathLine(snapshot.lines[k].line)
  /\ game_state' = read_snapshot(game_state, snapshot)
  /\ pc' = "replayed"
  /\ UNCHANGED <<seen, input_size, miner_index, submitted, turn, assigned, chosen,
                  dispatched, snapshot>>

\* the line read last, which reports a destroyed robot, is read again
ReplayDeathLine ==
  /\ pc = "entities"
  /\ snapshot.lines # << >>
  /\ IsDeathLine(snapshot.lines[Len(snapshot.lines)].line)
  /\ game_state' = read_entities(game_state, snapshot.lines, Len(snapshot.lines))
  /\ pc' = "replayed_line"
  /\ UNCHANGED <<seen, input_size, miner_index, submitted, turn, assigned, chosen,
                  dispatched, snapshot>>

SnapshotNext ==
  \/ SnapshotStartTurn
  \/ SnapshotReadNewEntity
  \/ SnapshotReadKnownEntity
  \/ ReplaySnapshot
  \/ ReplayDeathLine
  \/ AssignRadar
  \/ KeepRadar
  \/ MinerStep

SpecSnapshot == Init /\ [][SnapshotNext]_vars

---------------------------------------------------------------------------
(* Vocabulary of the properties. *)

Miners == game_state.miners

MinerIndices == 0 .. (Len(Miners) - 1)

\* the owned miners whose order is DeployRadarAt
RadarOrdered == {i \in MinerIndices : Miners[i + 1].order.kind = "DeployRadarAt"}

Living == {i \in MinerIndices : Miners[i + 1].alive}

\* the distance assign_radar ranks the miners by
MiddleDist(i) == Abs(Miners[i + 1].y - (game_state.height \div 2))

\* the cells of the board of this run
AllCells ==
  {<<x, y>> : x \in 0 .. (game_state.width - 1), y \in 0 .. (game_state.height - 1)}

\* the cells of known ore above zero
OreCells ==
  {c \in AllCells : /\ cell(game_state, c[1], c[2])[1].ore_amount # None
                    /\ cell(game_state, c[1], c[2])[1].ore_amount[1] > 0}

InBounds(x, y) == 0 <= x /\ x < game_state.width /\ 0 <= y /\ y < game_state.height

\* a pass of the loop over the miners is about to run, for miner miner_index
Pass == pc = "orders" /\ miner_index < Len(Miners)

\* the miner of that pass, as the pass finds it, and its order after the pass
Me == Miners[miner_index + 1]

MyOrderAfter == game_state'.miners[miner_index + 1].order

\* the requests the pass submits
Emitted == SubSeq(submitted', Len(submitted) + 1, Len(submitted'))

\* the pass submits this one request, for its miner
EmitsOnly(request) == Emitted = <<[miner |-> miner_index, req |-> request]>>

\* the miner of the pass does not carry the radar mission and travels
Travelling ==
  /\ Pass
  /\ Some(miner_index) # game_state.miner_with_radar
  /\ Me.order.kind \in {"GoTo", "DigAt"}

\* the miner of the last pass, the request submitted for it, in the state after
Last == Miners[miner_index]

LastRequest == submitted[Len(submitted)].req

AfterPass == pc = "orders" /\ miner_index > 0 /\ Len(submitted) = miner_index

---------------------------------------------------------------------------
(* The claims. *)

\* C1: at every point of every turn (while the snapshot is read, after the
\* radar assignment, before, during and after the loop over the miners) at
\* most one owned miner has an order of variant DeployRadarAt.
C1_AtMostOneRadarOrder == Cardinality(RadarOrdered) <= 1

\* C1's case: a later turn, in the middle of the loop over two miners, one of
\* which has the radar order.
C1_Witness ==
  /\ pc = "orders"
  /\ turn > 1
  /\ 0 < miner_index
  /\ miner_index < Len(Miners)
  /\ Cardinality(RadarOrdered) = 1

\* C2: right after assign_radar has run (no miner had the mission) with at
\* least one living owned miner, exactly one owned miner has the order
\* DeployRadarAt and miner_with_radar names that miner.
C2_AssignedExactlyOne ==
  (assigned /\ Living # {}) =>
    \E i \in MinerIndices :
      /\ RadarOrdered = {i}
      /\ game_state.miner_with_radar = Some(i)

\* C2's case: assign_radar has just run over two miners in a turn after the first.
C2_Witness ==
  /\ assigned
  /\ turn > 1
  /\ Len(Miners) = 2
  /\ Living # {}

\* C3: the miner assign_radar selects is alive, no living miner is closer to
\* the middle row, and no living miner as close has a lower index.
C3_SelectsClosestLiving ==
  assigned =>
    LET i == game_state.miner_with_radar[1] IN
    /\ Miners[i + 1].alive
    /\ \A j \in Living :
         \/ MiddleDist(i) < MiddleDist(j)
         \/ MiddleDist(i) = MiddleDist(j) /\ i <= j

\* C4: with no living owned miner assign_radar is a no-op: it gives no order,
\* records no holder, and does not end the program.
C4_NoLivingNoOp ==
  /\ pc # "panic_assign_radar"
  /\ assigned => Living # {}

\* C5: the loop over the miners submits exactly one request per owned miner,
\* in index order: after k passes there are k requests, the j-th for miner
\* j, and at the end of the loop no fewer than there are living miners; no
\* pass of the loop ends the program (unreachable!() or unwrap on None).
C5_OneActionPerMiner ==
  /\ pc # "panic_orders"
  /\ pc = "orders" =>
       /\ Len(submitted) = miner_index
       /\ \A k \in 1 .. Len(submitted) : submitted[k].miner = k - 1
       /\ AtLoopTop => Len(submitted) >= Cardinality(Living)

\* C5's case: the loop of a later turn has ended over two miners, one destroyed.
C5_Witness ==
  /\ AtLoopTop
  /\ turn > 1
  /\ Len(Miners) = 2
  /\ Cardinality(Living) = 1
  /\ Len(submitted) = 2

\* C6: a pass of the loop over a miner that is not alive submits nothing but
\* Wait and leaves the order of that miner as it was.
C6_DeadMinerIdle ==
  [][(/\ pc = "orders"
      /\ miner_index < Len(Miners)
      /\ ~Miners[miner_index + 1].alive
      /\ miner_index' = miner_index + 1)
     => (/\ \A k \in (Len(submitted) + 1) .. Len(submitted') :
              submitted'[k].req.kind = "Wait"
         /\ game_state'.miners[miner_index + 1].order = Miners[miner_index + 1].order)]_vars

\* C7: every Move and Dig submitted, for any miner, names a cell of the board.
C7_RequestsInBounds ==
  \A k \in 1 .. Len(submitted) :
    submitted[k].req.kind \in {"Move", "Dig"} =>
      InBounds(submitted[k].req.x, submitted[k].req.y)

\* C8: an entity line whose type code is none of 0 .. 3 does not end the turn.
C8_BadTypeRecovered == pc # "panic_entity_type"

\* C9: when choose_order has been called for a miner: if some cell has known
\* ore above zero the result is DigAt of such a cell and no such cell is
\* nearer to the miner (Manhattan distance); if none has, the result is
\* GoTo(x, y) with 1 <= x < width and 0 <= y < height.
C9_ChooseOrderNearestOre ==
  chosen # None =>
    LET m == Miners[chosen[1].miner + 1]
        o == chosen[1].order
    IN IF OreCells # {}
       THEN /\ o.kind = "DigAt"
            /\ <<o.x, o.y>> \in OreCells
            /\ \A c \in OreCells :
                 manh_dist(<<o.x, o.y>>, <<m.x, m.y>>) <= manh_dist(c, <<m.x, m.y>>)
       ELSE /\ o.kind = "GoTo"
            /\ 1 <= o.x
            /\ InBounds(o.x, o.y)

\* C9's case: choose_order has returned DigAt while another cell of ore lies
\* farther from the miner.
C9_Witness ==
  /\ chosen # None
  /\ chosen[1].order.kind = "DigAt"
  /\ \E c \in OreCells :
       manh_dist(c, <<Miners[chosen[1].miner + 1].x, Miners[chosen[1].miner + 1].y>>)
         > manh_dist(destination(chosen[1].order),
                     <<Miners[chosen[1].miner + 1].x, Miners[chosen[1].miner + 1].y>>)

\* the cells of ore nearest to the miner choose_order was called for
NearestOreCells ==
  LET m == Miners[chosen[1].miner + 1] IN
  {c \in OreCells :
     \A d \in OreCells : manh_dist(c, <<m.x, m.y>>) <= manh_dist(d, <<m.x, m.y>>)}

\* C10 as stated: among the nearest cells of ore choose_order returns the
\* first in row-major order, the smallest y and then the smallest x.
C10_TieRowMajor ==
  (chosen # None /\ chosen[1].order.kind = "DigAt") =>
    \A c \in NearestOreCells :
      \/ chosen[1].order.y < c[2]
      \/ chosen[1].order.y = c[2] /\ chosen[1].order.x <= c[1]

\* C10 as amended: among the nearest cells of ore choose_order returns the
\* first in the order of its scan, x outer and y inner: the smallest x and
\* then the smallest y.
C10_TieColumnMajor ==
  (chosen # None /\ chosen[1].order.kind = "DigAt") =>
    \A c \in NearestOreCells :
      \/ chosen[1].order.x < c[1]
      \/ chosen[1].order.x = c[1] /\ chosen[1].order.y <= c[2]

\* C10's case: choose_order has returned one of two nearest cells of ore, the
\* other being above it and to its right.
C10_Witness ==
  /\ chosen # None
  /\ chosen[1].order.kind = "DigAt"
  /\ \E c \in NearestOreCells :
       c[1] > chosen[1].order.x /\ c[2] < chosen[1].order.y

---------------------------------------------------------------------------
(* The snapshot. *)

\* a step reads an entity line and records it
LineRead == pc = "entities" /\ Len(snapshot'.lines) = Len(snapshot.lines) + 1

\* the line such a step reads
TheLine == snapshot'.lines[Len(snapshot'.lines)]

\* the kind a uid is registered with
KindOf(uid) == game_state.entities[uid].kind

\* the record of the robot a uid is registered as, in a game state
RobotOf(gs, uid) ==
  IF gs.entities[uid].kind = "Miner"
  THEN gs.miners[gs.entities[uid].index + 1]
  ELSE gs.opponent_miners[gs.entities[uid].index + 1]

IsRobot(uid) ==
  entity_exists(game_state, uid) /\ KindOf(uid) \in {"Miner", "OpponentMiner"}

\* C11: a line with the position (-1, -1) about a registered robot that is
\* alive sets alive to false; reading the same line once more leaves the
\* whole game state as it is; and no step sets alive back to true.
C11_DeathIsFinal ==
  [][/\ (LineRead /\ IsDeathLine(TheLine.line) /\ IsRobot(TheLine.uid))
          => ~RobotOf(game_state', TheLine.uid).alive
     /\ pc' = "replayed_line" => game_state' = game_state
     /\ \A i \in 1 .. Len(game_state.miners) :
          ~game_state.miners[i].alive => ~game_state'.miners[i].alive
     /\ \A i \in 1 .. Len(game_state.opponent_miners) :
          ~game_state.opponent_miners[i].alive => ~game_state'.opponent_miners[i].alive]_vars

\* C11's case: in the second turn the line of a destroyed robot (alive until
\* then) has been read, and read again.
C11_Witness ==
  /\ pc = "replayed_line"
  /\ turn = 2
  /\ IsRobot(snapshot.lines[Len(snapshot.lines)].uid)
  /\ ~RobotOf(game_state, snapshot.lines[Len(snapshot.lines)].uid).alive

\* C12: a snapshot with no line of a destroyed robot (grid rows and entity
\* lines, of new or known uids), read a second time right after the first,
\* leaves the registry, the robots, the maps of buried items and the cells
\* as the first reading left them.
C12_SnapshotIdempotent ==
  [][pc' = "replayed" => game_state' = game_state]_vars

\* C12's case: the snapshot of the second turn, with a line about a known
\* uid and a line that registers a uid, has been read twice.
C12_Witness ==
  /\ pc = "replayed"
  /\ turn = 2
  /\ Len(snapshot.lines) = 2
  /\ Len(game_state.miners) + Len(game_state.opponent_miners) = 1
  /\ Cardinality(DOMAIN game_state.entities) = 2

\* the line is of type buried radar or trap and the uid is not in that map,
\* or it is of a robot type and the uid is registered as a buried item
Mismatched(uid, line) ==
  \/ line.type_code = 2 /\ uid \notin DOMAIN game_state.burried_radars
  \/ line.type_code = 3 /\ uid \notin DOMAIN game_state.burried_traps
  \/ line.type_code \in {0, 1} /\ KindOf(uid) \in {"BurriedRadar", "BurriedTrap"}

\* C18: a line about a registered uid whose type does not match: the
\* registry, the robots and both maps stay as they are, and the turn goes on.
C18_MismatchIgnored ==
  [][(/\ LineRead
      /\ entity_exists(game_state, TheLine.uid)
      /\ Mismatched(TheLine.uid, TheLine.line))
     => (game_state' = game_state /\ pc' = "entities")]_vars

\* C18's case: with an owned miner registered, a line of a robot type has
\* been read about a uid that is registered as a buried trap, and the
\* reading of the entity lines goes on.
C18_Witness ==
  /\ pc = "entities"
  /\ game_state.miners # << >>
  /\ snapshot.lines # << >>
  /\ snapshot.lines[Len(snapshot.lines)].line.type_code = 0
  /\ KindOf(snapshot.lines[Len(snapshot.lines)].uid) = "BurriedTrap"

---------------------------------------------------------------------------
(* The order loop, branch by branch. *)

\* C13: a miner without the radar mission whose order is GoTo(x, y) or
\* DigAt(x, y), that stands on (x, y), carries no ore, and whose cell has
\* unknown ore and no hole: the pass submits Dig(x, y) and nothing else, and
\* the order of the miner stays as it was.
C13_ProbeDig ==
  [][(/\ Travelling
      /\ <<Me.x, Me.y>> = destination(Me.order)
      /\ Me.item # Some("Ore")
      /\ cell(game_state, Me.order.x, Me.order.y)[1].ore_amount = None
      /\ ~cell(game_state, Me.order.x, Me.order.y)[1].has_hole)
     => (/\ EmitsOnly(Dig(Me.order.x, Me.order.y))
         /\ MyOrderAfter = Me.order)]_vars

\* C13's case: the last pass was for such a miner (another miner has the
\* radar mission) and Dig of its cell has been submitted.
C13_Witness ==
  /\ AfterPass
  /\ game_state.miner_with_radar # None
  /\ game_state.miner_with_radar # Some(miner_index - 1)
  /\ dispatched = Some(Last.order)
  /\ Last.order.kind \in {"GoTo", "DigAt"}
  /\ <<Last.x, Last.y>> = destination(Last.order)
  /\ Last.item # Some("Ore")
  /\ cell(game_state, Last.x, Last.y)[1] = DefaultCell
  /\ LastRequest = Dig(Last.x, Last.y)

\* C14 as stated: a miner with order Deliver(x, y) in the home column gets
\* the order choose_order returns, a GoTo or a DigAt, and the pass submits
\* Move to the destination of the new order, which is not the cell (x, y).
C14_DeliverHomeElsewhere ==
  [][(Pass /\ Me.order.kind = "Deliver" /\ Me.x = 0)
     => (/\ MyOrderAfter.kind \in {"GoTo", "DigAt"}
         /\ chosen' = Some([miner |-> miner_index, order |-> MyOrderAfter])
         /\ EmitsOnly(Move(MyOrderAfter.x, MyOrderAfter.y))
         /\ destination(MyOrderAfter) # destination(Me.order))]_vars

\* C14 as amended: a miner with order Deliver(x, y) in the home column gets
\* the order choose_order returns, a GoTo or a DigAt, and the pass submits
\* Move to the destination of the new order, be it the cell (x, y) or not.
C14_DeliverHomeNewOrder ==
  [][(Pass /\ Me.order.kind = "Deliver" /\ Me.x = 0)
     => (/\ MyOrderAfter.kind \in {"GoTo", "DigAt"}
         /\ chosen' = Some([miner |-> miner_index, order |-> MyOrderAfter])
         /\ EmitsOnly(Move(MyOrderAfter.x, MyOrderAfter.y)))]_vars

\* C14's case: the last pass found its miner in the home column with a
\* Deliver order and gave it DigAt of the cell the Deliver order stored.
C14_Witness ==
  /\ AfterPass
  /\ dispatched # None
  /\ dispatched[1].kind = "Deliver"
  /\ Last.x = 0
  /\ Last.order = DigAt(dispatched[1].x, dispatched[1].y)
  /\ LastRequest = Move(Last.order.x, Last.order.y)

\* C15: a miner without the radar mission whose order is GoTo(x, y) or
\* DigAt(x, y) and that is not on (x, y): if some cell has known ore above
\* zero, its order becomes the DigAt choose_order returns and the pass submits
\* Move to that cell; if none has, its order stays and the pass submits
\* Move(x, y).
C15_EnRoute ==
  [][(Travelling /\ <<Me.x, Me.y>> # destination(Me.order))
     => IF OreCells # {}
        THEN /\ MyOrderAfter.kind = "DigAt"
             /\ chosen' = Some([miner |-> miner_index, order |-> MyOrderAfter])
             /\ EmitsOnly(Move(MyOrderAfter.x, MyOrderAfter.y))
        ELSE /\ MyOrderAfter = Me.order
             /\ EmitsOnly(Move(Me.order.x, Me.order.y))]_vars

\* C15's case: the last pass found its miner away from the destination of
\* its GoTo order and gave it DigAt of another cell; another miner has the
\* radar mission.
C15_Witness ==
  /\ AfterPass
  /\ dispatched # None
  /\ dispatched[1].kind = "GoTo"
  /\ game_state.miner_with_radar # None
  /\ game_state.miner_with_radar # Some(miner_index - 1)
  /\ <<Last.x, Last.y>> # destination(dispatched[1])
  /\ Last.order.kind = "DigAt"
  /\ destination(Last.order) # destination(dispatched[1])
  /\ LastRequest = Move(Last.order.x, Last.order.y)

\* the miner of the pass carries the radar mission and the radar
Carrying ==
  /\ Pass
  /\ Some(miner_index) = game_state.miner_with_radar
  /\ Me.order.kind = "DeployRadarAt"
  /\ Me.item = Some("Radar")

\* C16: the holder of the radar mission carries the radar.  On its
\* destination: the pass submits Dig there and releases the mission, no
\* miner has DeployRadarAt from then to the end of the turn, and assign_radar
\* runs once the next snapshot is read.  Elsewhere: the pass submits Move to
\* the destination, and holder and order stay.
C16_CarrierDeploys ==
  [][/\ (Carrying /\ <<Me.x, Me.y>> = destination(Me.order))
          => (/\ EmitsOnly(Dig(Me.order.x, Me.order.y))
              /\ game_state'.miner_with_radar = None
              /\ \A i \in MinerIndices :
                   game_state'.miners[i + 1].order.kind # "DeployRadarAt")
     /\ (Pass /\ game_state.miner_with_radar = None /\ RadarOrdered = {})
          => (/\ game_state'.miner_with_radar = None
              /\ \A i \in MinerIndices :
                   game_state'.miners[i + 1].order.kind # "DeployRadarAt")
     /\ (pc = "entities" /\ pc' = "orders" /\ game_state.miner_with_radar = None)
          => (assigned' /\ game_state'.miner_with_radar # None)
     /\ (Carrying /\ <<Me.x, Me.y>> # destination(Me.order))
          => (/\ EmitsOnly(Move(Me.order.x, Me.order.y))
              /\ game_state'.miner_with_radar = game_state.miner_with_radar
              /\ MyOrderAfter = Me.order)]_vars

\* C16's case: the last pass found the holder on its destination with the
\* radar; Dig has been submitted and no miner has the mission.
C16_Witness ==
  /\ AfterPass
  /\ dispatched # None
  /\ dispatched[1].kind = "DeployRadarAt"
  /\ <<Last.x, Last.y>> = destination(dispatched[1])
  /\ Last.item = Some("Radar")
  /\ LastRequest = Dig(Last.x, Last.y)
  /\ game_state.miner_with_radar = None
  /\ RadarOrdered = {}
  /\ Len(Miners) = 2

\* C17: a miner with order Deliver(x, y) outside the home column: the pass
\* submits Move(0, r), r being the row the miner is on, and the order stays
\* Deliver(x, y).  Stated for the miners that are alive, whose row is a row
\* of the board.
C17_DeliverGoesHomeOnRow ==
  [][(Pass /\ Me.order.kind = "Deliver" /\ Me.x # 0 /\ Me.alive)
     => (/\ EmitsOnly(Move(0, Me.y))
         /\ MyOrderAfter = Me.order)]_vars

---------------------------------------------------------------------------
(* The record of the holder and the radar order. *)

\* C19: whenever a pass of the loop over the miners is about to run, a miner
\* is the recorded holder of the radar mission exactly if its order is
\* DeployRadarAt; no pass ends in unreachable!().
C19_HolderIffRadarOrder ==
  /\ pc # "panic_orders"
  /\ pc = "orders" =>
       \A i \in MinerIndices :
         (game_state.miner_with_radar = Some(i)) <=> (i \in RadarOrdered)

\* C19's case: in a later turn the pass of the second miner, the holder, is
\* about to run, the first miner having no radar order.
C19_Witness ==
  /\ Pass
  /\ turn > 1
  /\ miner_index = 1
  /\ game_state.miner_with_radar = Some(1)
  /\ RadarOrdered = {1}

\* the holder of the radar mission is a destroyed miner with no item
HolderIsDead ==
  /\ game_state.miner_with_radar # None
  /\ ~Miners[game_state.miner_with_radar[1] + 1].alive
  /\ Miners[game_state.miner_with_radar[1] + 1].x = -1
  /\ Miners[game_state.miner_with_radar[1] + 1].y = -1
  /\ Miners[game_state.miner_with_radar[1] + 1].item = None

\* C20: the record of the holder goes from a miner to empty only in the
\* pass of that miner, when it carries the radar on its destination; in
\* every other step the holder and its radar order stay, and no other miner
\* gets DeployRadarAt.  With a holder that is destroyed and has no item no
\* step releases the mission.
C20_HolderKept ==
  [][/\ game_state.miner_with_radar # None
          => \/ /\ game_state'.miner_with_radar = game_state.miner_with_radar
                /\ game_state'.miners[game_state.miner_with_radar[1] + 1].order
                     = Miners[game_state.miner_with_radar[1] + 1].order
                /\ \A i \in 0 .. (Len(game_state'.miners) - 1) :
                     game_state'.miners[i + 1].order.kind = "DeployRadarAt"
                       => Some(i) = game_state.miner_with_radar
             \/ /\ game_state'.miner_with_radar = None
                /\ Carrying
                /\ <<Me.x, Me.y>> = destination(Me.order)
     /\ HolderIsDead => game_state'.miner_with_radar = game_state.miner_with_radar]_vars

\* C20's case: a turn has ended with two miners, the holder destroyed since
\* the turn before at least and still the only miner with DeployRadarAt.
C20_Witness ==
  /\ AtLoopTop
  /\ turn = 3
  /\ Len(Miners) = 2
  /\ HolderIsDead
  /\ RadarOrdered = {game_state.miner_with_radar[1]}
  /\ seen = {}

---------------------------------------------------------------------------
(* Order destinations. *)

\* the order is one of the four kinds and its destination is a cell of the
\* board outside the column of the HQ
OffHomeColumn(order) ==
  /\ order.kind \in {"GoTo", "DigAt", "DeployRadarAt", "Deliver"}
  /\ 1 <= order.x
  /\ order.x < game_state.width
  /\ 0 <= order.y
  /\ order.y < game_state.height

\* C21: in every state the destination (x, y) of the order of every owned
\* miner has 1 <= x < width and 0 <= y < height; the cells of column 0 stay as
\* they were created, so no cell of known ore above zero is in column 0.
C21_OrdersOffHomeColumn ==
  /\ \A i \in MinerIndices : OffHomeColumn(Miners[i + 1].order)
  /\ \A y \in 0 .. (game_state.height - 1) :
       cell(game_state, 0, y) = Some(DefaultCell)
  /\ \A c \in OreCells : c[1] >= 1

\* C21's case: in a later turn a miner standing in the column of the HQ has
\* just been given DigAt by the heuristic, with ore known on the board, while
\* the other miner holds the random DeployRadarAt.
C21_Witness ==
  /\ AfterPass
  /\ turn >= 2
  /\ Len(Miners) = 2
  /\ Last.alive
  /\ Last.x = 0
  /\ dispatched # None
  /\ dispatched[1].kind = "GoTo"
  /\ Last.order.kind = "DigAt"
  /\ <<Last.order.x, Last.order.y>> \in OreCells
  /\ \E i \in MinerIndices : Miners[i + 1].order.kind = "DeployRadarAt"

===========================================================================
